---- MODULE Spec2Model ----
(***************************************************************************)
(* tuvix-bot: a Probot app relaying pull-request events to Slack.          *)
(* Model of src/index.js (lines 1-307): the targeting filter, the four     *)
(* event handlers, the review-body truncation and the Slack fan-out.       *)
(*                                                                         *)
(* A JavaScript string the code inspects (a label name, PR_LABEL, a review  *)
(* body) is modelled as the sequence of its UTF-16 code units, so that      *)
(* length, toLowerCase, indexOf and substring are computed, not assumed.    *)
(* A string the code only copies (a login, a URL, a title) is an atom, and  *)
(* a template literal is the tuple of its parts.                            *)
(***************************************************************************)
EXTENDS Integers, Sequences, FiniteSets, TLC

VARIABLES
    PR_LABEL,       \* module constant PR_LABEL (line 13), set at start-up
    envLabel,       \* process.env.PR_LABEL as configured
    slackClients,   \* module constant slackClients (line 15): workspace ids
    payload,        \* per event: the webhook payload received, or NoEvent
    handler,        \* per event: state of the handler's promise
    sent,           \* per event: arguments of the sendSlackMessage calls made
    listing,        \* per event, workspace: state of the getChannels call
    channels,       \* per event, workspace: the channel list returned
    posts,          \* per event, workspace: state of each chat.postMessage
    errors,         \* per event: the local array `errors` of sendSlackMessage
    consoleLog,     \* lines written by console.log
    appLog,         \* lines written by app.log
    listCalls,      \* per event: the workspaces users.conversations was called on, in order
    postCalls,      \* per event, workspace: the arguments of the chat.postMessage calls, in order
    escaped,        \* errors no catch block handled (rejections)
    body,           \* truncation check: a review body
    text,           \* truncation check: the attachment text computed
    tpc             \* truncation check: "input" or "done"

vars == <<PR_LABEL, envLabel, slackClients, payload, handler, sent, listing,
          channels, posts, errors, consoleLog, appLog, listCalls, postCalls,
          escaped, body, text, tpc>>

fanVars == <<PR_LABEL, envLabel, slackClients, payload, handler, sent, listing,
             channels, posts, errors, consoleLog, appLog, listCalls, postCalls,
             escaped>>

truncVars == <<body, text, tpc>>

(***************************************************************************)
(* Bounds                                                                  *)
(***************************************************************************)
MaxBodyLen == 70        \* longest review body of the truncation check
NumWorkspaces == 2      \* most configured Slack workspaces
MaxChannels == 2        \* most channels a workspace lists
MaxEvents == 2          \* events in flight at once
MaxFailures == 2        \* most Slack calls that fail during one fan-out

(***************************************************************************)
(* Strings                                                                 *)
(***************************************************************************)
\* '\n' (line 43)
NL == 10
\* "..." (lines 35, 43)
Ellipsis == <<46, 46, 46>>

\* The simple lower-case mappings of Unicode (UnicodeData.txt, version 17.0):
\* <<lo, hi, step, delta>> maps every code point lo, lo + step, ..., hi to
\* itself plus delta. Basic Latin is the first range.
LowerRanges == <<
    <<65,90,1,32>>, <<192,214,1,32>>, <<216,222,1,32>>, <<256,302,2,1>>, <<306,310,2,1>>,
    <<313,327,2,1>>, <<330,374,2,1>>, <<376,376,1,-121>>, <<377,381,2,1>>,
    <<385,385,1,210>>, <<386,388,2,1>>, <<390,390,1,206>>, <<391,391,1,1>>,
    <<393,394,1,205>>, <<395,395,1,1>>, <<398,398,1,79>>, <<399,399,1,202>>,
    <<400,400,1,203>>, <<401,401,1,1>>, <<403,403,1,205>>, <<404,404,1,207>>,
    <<406,406,1,211>>, <<407,407,1,209>>, <<408,408,1,1>>, <<412,412,1,211>>,
    <<413,413,1,213>>, <<415,415,1,214>>, <<416,420,2,1>>, <<422,422,1,218>>,
    <<423,423,1,1>>, <<425,425,1,218>>, <<428,428,1,1>>, <<430,430,1,218>>, <<431,431,1,1>>,
    <<433,434,1,217>>, <<435,437,2,1>>, <<439,439,1,219>>, <<440,440,1,1>>, <<444,444,1,1>>,
    <<452,452,1,2>>, <<453,453,1,1>>, <<455,455,1,2>>, <<456,456,1,1>>, <<458,458,1,2>>,
    <<459,475,2,1>>, <<478,494,2,1>>, <<497,497,1,2>>, <<498,500,2,1>>, <<502,502,1,-97>>,
    <<503,503,1,-56>>, <<504,542,2,1>>, <<544,544,1,-130>>, <<546,562,2,1>>,
    <<570,570,1,10795>>, <<571,571,1,1>>, <<573,573,1,-163>>, <<574,574,1,10792>>,
    <<577,577,1,1>>, <<579,579,1,-195>>, <<580,580,1,69>>, <<581,581,1,71>>,
    <<582,590,2,1>>, <<880,882,2,1>>, <<886,886,1,1>>, <<895,895,1,116>>, <<902,902,1,38>>,
    <<904,906,1,37>>, <<908,908,1,64>>, <<910,911,1,63>>, <<913,929,1,32>>,
    <<931,939,1,32>>, <<975,975,1,8>>, <<984,1006,2,1>>, <<1012,1012,1,-60>>,
    <<1015,1015,1,1>>, <<1017,1017,1,-7>>, <<1018,1018,1,1>>, <<1021,1023,1,-130>>,
    <<1024,1039,1,80>>, <<1040,1071,1,32>>, <<1120,1152,2,1>>, <<1162,1214,2,1>>,
    <<1216,1216,1,15>>, <<1217,1229,2,1>>, <<1232,1326,2,1>>, <<1329,1366,1,48>>,
    <<4256,4293,1,7264>>, <<4295,4295,1,7264>>, <<4301,4301,1,7264>>, <<5024,5103,1,38864>>,
    <<5104,5109,1,8>>, <<7305,7305,1,1>>, <<7312,7354,1,-3008>>, <<7357,7359,1,-3008>>,
    <<7680,7828,2,1>>, <<7838,7838,1,-7615>>, <<7840,7934,2,1>>, <<7944,7951,1,-8>>,
    <<7960,7965,1,-8>>, <<7976,7983,1,-8>>, <<7992,7999,1,-8>>, <<8008,8013,1,-8>>,
    <<8025,8031,2,-8>>, <<8040,8047,1,-8>>, <<8072,8079,1,-8>>, <<8088,8095,1,-8>>,
    <<8104,8111,1,-8>>, <<8120,8121,1,-8>>, <<8122,8123,1,-74>>, <<8124,8124,1,-9>>,
    <<8136,8139,1,-86>>, <<8140,8140,1,-9>>, <<8152,8153,1,-8>>, <<8154,8155,1,-100>>,
    <<8168,8169,1,-8>>, <<8170,8171,1,-112>>, <<8172,8172,1,-7>>, <<8184,8185,1,-128>>,
    <<8186,8187,1,-126>>, <<8188,8188,1,-9>>, <<8486,8486,1,-7517>>, <<8490,8490,1,-8383>>,
    <<8491,8491,1,-8262>>, <<8498,8498,1,28>>, <<8544,8559,1,16>>, <<8579,8579,1,1>>,
    <<9398,9423,1,26>>, <<11264,11311,1,48>>, <<11360,11360,1,1>>, <<11362,11362,1,-10743>>,
    <<11363,11363,1,-3814>>, <<11364,11364,1,-10727>>, <<11367,11371,2,1>>,
    <<11373,11373,1,-10780>>, <<11374,11374,1,-10749>>, <<11375,11375,1,-10783>>,
    <<11376,11376,1,-10782>>, <<11378,11378,1,1>>, <<11381,11381,1,1>>,
    <<11390,11391,1,-10815>>, <<11392,11490,2,1>>, <<11499,11501,2,1>>, <<11506,11506,1,1>>,
    <<42560,42604,2,1>>, <<42624,42650,2,1>>, <<42786,42798,2,1>>, <<42802,42862,2,1>>,
    <<42873,42875,2,1>>, <<42877,42877,1,-35332>>, <<42878,42886,2,1>>, <<42891,42891,1,1>>,
    <<42893,42893,1,-42280>>, <<42896,42898,2,1>>, <<42902,42920,2,1>>,
    <<42922,42922,1,-42308>>, <<42923,42923,1,-42319>>, <<42924,42924,1,-42315>>,
    <<42925,42925,1,-42305>>, <<42926,42926,1,-42308>>, <<42928,42928,1,-42258>>,
    <<42929,42929,1,-42282>>, <<42930,42930,1,-42261>>, <<42931,42931,1,928>>,
    <<42932,42946,2,1>>, <<42948,42948,1,-48>>, <<42949,42949,1,-42307>>,
    <<42950,42950,1,-35384>>, <<42951,42953,2,1>>, <<42955,42955,1,-42343>>,
    <<42956,42970,2,1>>, <<42972,42972,1,-42561>>, <<42997,42997,1,1>>,
    <<65313,65338,1,32>>, <<66560,66599,1,40>>, <<66736,66771,1,40>>, <<66928,66938,1,39>>,
    <<66940,66954,1,39>>, <<66956,66962,1,39>>, <<66964,66965,1,39>>, <<68736,68786,1,64>>,
    <<68944,68965,1,32>>, <<71840,71871,1,32>>, <<93760,93791,1,32>>, <<93856,93880,1,27>>,
    <<125184,125217,1,34>> >>

\* The cased letters that are not case-ignorable, as ranges <<lo, hi>>
\* (DerivedCoreProperties.txt, version 17.0: Cased, Case_Ignorable)
CasedRanges == <<
    <<65,90>>, <<97,122>>, <<170,170>>, <<181,181>>, <<186,186>>, <<192,214>>, <<216,246>>,
    <<248,442>>, <<444,447>>, <<452,659>>, <<662,687>>, <<880,883>>, <<886,887>>,
    <<891,893>>, <<895,895>>, <<902,902>>, <<904,906>>, <<908,908>>, <<910,929>>,
    <<931,1013>>, <<1015,1153>>, <<1162,1327>>, <<1329,1366>>, <<1376,1416>>, <<4256,4293>>,
    <<4295,4295>>, <<4301,4301>>, <<4304,4346>>, <<4349,4351>>, <<5024,5109>>,
    <<5112,5117>>, <<7296,7306>>, <<7312,7354>>, <<7357,7359>>, <<7424,7467>>,
    <<7531,7543>>, <<7545,7578>>, <<7680,7957>>, <<7960,7965>>, <<7968,8005>>,
    <<8008,8013>>, <<8016,8023>>, <<8025,8025>>, <<8027,8027>>, <<8029,8029>>,
    <<8031,8061>>, <<8064,8116>>, <<8118,8124>>, <<8126,8126>>, <<8130,8132>>,
    <<8134,8140>>, <<8144,8147>>, <<8150,8155>>, <<8160,8172>>, <<8178,8180>>,
    <<8182,8188>>, <<8450,8450>>, <<8455,8455>>, <<8458,8467>>, <<8469,8469>>,
    <<8473,8477>>, <<8484,8484>>, <<8486,8486>>, <<8488,8488>>, <<8490,8493>>,
    <<8495,8500>>, <<8505,8505>>, <<8508,8511>>, <<8517,8521>>, <<8526,8526>>,
    <<8544,8575>>, <<8579,8580>>, <<9398,9449>>, <<11264,11387>>, <<11390,11492>>,
    <<11499,11502>>, <<11506,11507>>, <<11520,11557>>, <<11559,11559>>, <<11565,11565>>,
    <<42560,42605>>, <<42624,42651>>, <<42786,42863>>, <<42865,42887>>, <<42891,42894>>,
    <<42896,42972>>, <<42997,42998>>, <<43002,43002>>, <<43824,43866>>, <<43872,43880>>,
    <<43888,43967>>, <<64256,64262>>, <<64275,64279>>, <<65313,65338>>, <<65345,65370>>,
    <<66560,66639>>, <<66736,66771>>, <<66776,66811>>, <<66928,66938>>, <<66940,66954>>,
    <<66956,66962>>, <<66964,66965>>, <<66967,66977>>, <<66979,66993>>, <<66995,67001>>,
    <<67003,67004>>, <<68736,68786>>, <<68800,68850>>, <<68944,68965>>, <<68976,68997>>,
    <<71840,71903>>, <<93760,93823>>, <<93856,93880>>, <<93883,93907>>, <<119808,119892>>,
    <<119894,119964>>, <<119966,119967>>, <<119970,119970>>, <<119973,119974>>,
    <<119977,119980>>, <<119982,119993>>, <<119995,119995>>, <<119997,120003>>,
    <<120005,120069>>, <<120071,120074>>, <<120077,120084>>, <<120086,120092>>,
    <<120094,120121>>, <<120123,120126>>, <<120128,120132>>, <<120134,120134>>,
    <<120138,120144>>, <<120146,120485>>, <<120488,120512>>, <<120514,120538>>,
    <<120540,120570>>, <<120572,120596>>, <<120598,120628>>, <<120630,120654>>,
    <<120656,120686>>, <<120688,120712>>, <<120714,120744>>, <<120746,120770>>,
    <<120772,120779>>, <<122624,122633>>, <<122635,122654>>, <<122661,122666>>,
    <<125184,125251>>, <<127280,127305>>, <<127312,127337>>, <<127344,127369>> >>

\* The case-ignorable characters, as ranges <<lo, hi>>
IgnorableRanges == <<
    <<39,39>>, <<46,46>>, <<58,58>>, <<94,94>>, <<96,96>>, <<168,168>>, <<173,173>>,
    <<175,175>>, <<180,180>>, <<183,184>>, <<688,879>>, <<884,885>>, <<890,890>>,
    <<900,901>>, <<903,903>>, <<1155,1161>>, <<1369,1369>>, <<1375,1375>>, <<1425,1469>>,
    <<1471,1471>>, <<1473,1474>>, <<1476,1477>>, <<1479,1479>>, <<1524,1524>>,
    <<1536,1541>>, <<1552,1562>>, <<1564,1564>>, <<1600,1600>>, <<1611,1631>>,
    <<1648,1648>>, <<1750,1757>>, <<1759,1768>>, <<1770,1773>>, <<1807,1807>>,
    <<1809,1809>>, <<1840,1866>>, <<1958,1968>>, <<2027,2037>>, <<2042,2042>>,
    <<2045,2045>>, <<2070,2093>>, <<2137,2139>>, <<2184,2184>>, <<2192,2193>>,
    <<2199,2207>>, <<2249,2306>>, <<2362,2362>>, <<2364,2364>>, <<2369,2376>>,
    <<2381,2381>>, <<2385,2391>>, <<2402,2403>>, <<2417,2417>>, <<2433,2433>>,
    <<2492,2492>>, <<2497,2500>>, <<2509,2509>>, <<2530,2531>>, <<2558,2558>>,
    <<2561,2562>>, <<2620,2620>>, <<2625,2626>>, <<2631,2632>>, <<2635,2637>>,
    <<2641,2641>>, <<2672,2673>>, <<2677,2677>>, <<2689,2690>>, <<2748,2748>>,
    <<2753,2757>>, <<2759,2760>>, <<2765,2765>>, <<2786,2787>>, <<2810,2815>>,
    <<2817,2817>>, <<2876,2876>>, <<2879,2879>>, <<2881,2884>>, <<2893,2893>>,
    <<2901,2902>>, <<2914,2915>>, <<2946,2946>>, <<3008,3008>>, <<3021,3021>>,
    <<3072,3072>>, <<3076,3076>>, <<3132,3132>>, <<3134,3136>>, <<3142,3144>>,
    <<3146,3149>>, <<3157,3158>>, <<3170,3171>>, <<3201,3201>>, <<3260,3260>>,
    <<3263,3263>>, <<3270,3270>>, <<3276,3277>>, <<3298,3299>>, <<3328,3329>>,
    <<3387,3388>>, <<3393,3396>>, <<3405,3405>>, <<3426,3427>>, <<3457,3457>>,
    <<3530,3530>>, <<3538,3540>>, <<3542,3542>>, <<3633,3633>>, <<3636,3642>>,
    <<3654,3662>>, <<3761,3761>>, <<3764,3772>>, <<3782,3782>>, <<3784,3790>>,
    <<3864,3865>>, <<3893,3893>>, <<3895,3895>>, <<3897,3897>>, <<3953,3966>>,
    <<3968,3972>>, <<3974,3975>>, <<3981,3991>>, <<3993,4028>>, <<4038,4038>>,
    <<4141,4144>>, <<4146,4151>>, <<4153,4154>>, <<4157,4158>>, <<4184,4185>>,
    <<4190,4192>>, <<4209,4212>>, <<4226,4226>>, <<4229,4230>>, <<4237,4237>>,
    <<4253,4253>>, <<4348,4348>>, <<4957,4959>>, <<5906,5908>>, <<5938,5939>>,
    <<5970,5971>>, <<6002,6003>>, <<6068,6069>>, <<6071,6077>>, <<6086,6086>>,
    <<6089,6099>>, <<6103,6103>>, <<6109,6109>>, <<6155,6159>>, <<6211,6211>>,
    <<6277,6278>>, <<6313,6313>>, <<6432,6434>>, <<6439,6440>>, <<6450,6450>>,
    <<6457,6459>>, <<6679,6680>>, <<6683,6683>>, <<6742,6742>>, <<6744,6750>>,
    <<6752,6752>>, <<6754,6754>>, <<6757,6764>>, <<6771,6780>>, <<6783,6783>>,
    <<6823,6823>>, <<6832,6877>>, <<6880,6891>>, <<6912,6915>>, <<6964,6964>>,
    <<6966,6970>>, <<6972,6972>>, <<6978,6978>>, <<7019,7027>>, <<7040,7041>>,
    <<7074,7077>>, <<7080,7081>>, <<7083,7085>>, <<7142,7142>>, <<7144,7145>>,
    <<7149,7149>>, <<7151,7153>>, <<7212,7219>>, <<7222,7223>>, <<7288,7293>>,
    <<7376,7378>>, <<7380,7392>>, <<7394,7400>>, <<7405,7405>>, <<7412,7412>>,
    <<7416,7417>>, <<7468,7530>>, <<7544,7544>>, <<7579,7679>>, <<8125,8125>>,
    <<8127,8129>>, <<8141,8143>>, <<8157,8159>>, <<8173,8175>>, <<8189,8190>>,
    <<8203,8207>>, <<8216,8217>>, <<8228,8228>>, <<8231,8231>>, <<8234,8238>>,
    <<8288,8292>>, <<8294,8303>>, <<8305,8305>>, <<8319,8319>>, <<8336,8348>>,
    <<8400,8432>>, <<11388,11389>>, <<11503,11505>>, <<11631,11631>>, <<11647,11647>>,
    <<11744,11775>>, <<11823,11823>>, <<12293,12293>>, <<12330,12333>>, <<12337,12341>>,
    <<12347,12347>>, <<12441,12446>>, <<12540,12542>>, <<40981,40981>>, <<42232,42237>>,
    <<42508,42508>>, <<42607,42610>>, <<42612,42621>>, <<42623,42623>>, <<42652,42655>>,
    <<42736,42737>>, <<42752,42785>>, <<42864,42864>>, <<42888,42890>>, <<42993,42996>>,
    <<43000,43001>>, <<43010,43010>>, <<43014,43014>>, <<43019,43019>>, <<43045,43046>>,
    <<43052,43052>>, <<43204,43205>>, <<43232,43249>>, <<43263,43263>>, <<43302,43309>>,
    <<43335,43345>>, <<43392,43394>>, <<43443,43443>>, <<43446,43449>>, <<43452,43453>>,
    <<43471,43471>>, <<43493,43494>>, <<43561,43566>>, <<43569,43570>>, <<43573,43574>>,
    <<43587,43587>>, <<43596,43596>>, <<43632,43632>>, <<43644,43644>>, <<43696,43696>>,
    <<43698,43700>>, <<43703,43704>>, <<43710,43711>>, <<43713,43713>>, <<43741,43741>>,
    <<43756,43757>>, <<43763,43764>>, <<43766,43766>>, <<43867,43871>>, <<43881,43883>>,
    <<44005,44005>>, <<44008,44008>>, <<44013,44013>>, <<64286,64286>>, <<64434,64450>>,
    <<65024,65039>>, <<65043,65043>>, <<65056,65071>>, <<65106,65106>>, <<65109,65109>>,
    <<65279,65279>>, <<65287,65287>>, <<65294,65294>>, <<65306,65306>>, <<65342,65342>>,
    <<65344,65344>>, <<65392,65392>>, <<65438,65439>>, <<65507,65507>>, <<65529,65531>>,
    <<66045,66045>>, <<66272,66272>>, <<66422,66426>>, <<67456,67461>>, <<67463,67504>>,
    <<67506,67514>>, <<68097,68099>>, <<68101,68102>>, <<68108,68111>>, <<68152,68154>>,
    <<68159,68159>>, <<68325,68326>>, <<68900,68903>>, <<68942,68942>>, <<68969,68973>>,
    <<68975,68975>>, <<69291,69292>>, <<69317,69317>>, <<69370,69375>>, <<69446,69456>>,
    <<69506,69509>>, <<69633,69633>>, <<69688,69702>>, <<69744,69744>>, <<69747,69748>>,
    <<69759,69761>>, <<69811,69814>>, <<69817,69818>>, <<69821,69821>>, <<69826,69826>>,
    <<69837,69837>>, <<69888,69890>>, <<69927,69931>>, <<69933,69940>>, <<70003,70003>>,
    <<70016,70017>>, <<70070,70078>>, <<70089,70092>>, <<70095,70095>>, <<70191,70193>>,
    <<70196,70196>>, <<70198,70199>>, <<70206,70206>>, <<70209,70209>>, <<70367,70367>>,
    <<70371,70378>>, <<70400,70401>>, <<70459,70460>>, <<70464,70464>>, <<70502,70508>>,
    <<70512,70516>>, <<70587,70592>>, <<70606,70606>>, <<70608,70608>>, <<70610,70610>>,
    <<70625,70626>>, <<70712,70719>>, <<70722,70724>>, <<70726,70726>>, <<70750,70750>>,
    <<70835,70840>>, <<70842,70842>>, <<70847,70848>>, <<70850,70851>>, <<71090,71093>>,
    <<71100,71101>>, <<71103,71104>>, <<71132,71133>>, <<71219,71226>>, <<71229,71229>>,
    <<71231,71232>>, <<71339,71339>>, <<71341,71341>>, <<71344,71349>>, <<71351,71351>>,
    <<71453,71453>>, <<71455,71455>>, <<71458,71461>>, <<71463,71467>>, <<71727,71735>>,
    <<71737,71738>>, <<71995,71996>>, <<71998,71998>>, <<72003,72003>>, <<72148,72151>>,
    <<72154,72155>>, <<72160,72160>>, <<72193,72202>>, <<72243,72248>>, <<72251,72254>>,
    <<72263,72263>>, <<72273,72278>>, <<72281,72283>>, <<72330,72342>>, <<72344,72345>>,
    <<72544,72544>>, <<72546,72548>>, <<72550,72550>>, <<72752,72758>>, <<72760,72765>>,
    <<72767,72767>>, <<72850,72871>>, <<72874,72880>>, <<72882,72883>>, <<72885,72886>>,
    <<73009,73014>>, <<73018,73018>>, <<73020,73021>>, <<73023,73029>>, <<73031,73031>>,
    <<73104,73105>>, <<73109,73109>>, <<73111,73111>>, <<73177,73177>>, <<73459,73460>>,
    <<73472,73473>>, <<73526,73530>>, <<73536,73536>>, <<73538,73538>>, <<73562,73562>>,
    <<78896,78912>>, <<78919,78933>>, <<90398,90409>>, <<90413,90415>>, <<92912,92916>>,
    <<92976,92982>>, <<92992,92995>>, <<93504,93506>>, <<93547,93548>>, <<94031,94031>>,
    <<94095,94111>>, <<94176,94177>>, <<94179,94180>>, <<94194,94195>>, <<110576,110579>>,
    <<110581,110587>>, <<110589,110590>>, <<113821,113822>>, <<113824,113827>>,
    <<118528,118573>>, <<118576,118598>>, <<119143,119145>>, <<119155,119170>>,
    <<119173,119179>>, <<119210,119213>>, <<119362,119364>>, <<121344,121398>>,
    <<121403,121452>>, <<121461,121461>>, <<121476,121476>>, <<121499,121503>>,
    <<121505,121519>>, <<122880,122886>>, <<122888,122904>>, <<122907,122913>>,
    <<122915,122916>>, <<122918,122922>>, <<122928,122989>>, <<123023,123023>>,
    <<123184,123197>>, <<123566,123566>>, <<123628,123631>>, <<124139,124143>>,
    <<124398,124399>>, <<124643,124643>>, <<124646,124646>>, <<124654,124655>>,
    <<124661,124661>>, <<124671,124671>>, <<125136,125142>>, <<125252,125259>>,
    <<127995,127999>>, <<917505,917505>>, <<917536,917631>>, <<917760,917999>> >>

InRanges(cp, ranges) == \E k \in DOMAIN ranges : ranges[k][1] <= cp /\ cp <= ranges[k][2]

IsHighSurrogate(u) == 55296 <= u /\ u <= 56319
IsLowSurrogate(u) == 56320 <= u /\ u <= 57343

\* The code points of a string of UTF-16 code units; an unpaired surrogate
\* stands for itself
RECURSIVE CodePointsFrom(_, _)
CodePointsFrom(s, i) ==
    IF i > Len(s) THEN <<>>
    ELSE IF IsHighSurrogate(s[i]) /\ i < Len(s) /\ IsLowSurrogate(s[i + 1])
    THEN <<65536 + (s[i] - 55296) * 1024 + (s[i + 1] - 56320)>> \o CodePointsFrom(s, i + 2)
    ELSE <<s[i]>> \o CodePointsFrom(s, i + 1)

\* The UTF-16 code units of one code point
CodeUnits(cp) ==
    IF cp >= 65536
    THEN <<55296 + ((cp - 65536) \div 1024), 56320 + ((cp - 65536) % 1024)>>
    ELSE <<cp>>

\* The lower-case mapping of one code point out of context: a Basic Latin
\* capital directly, U+0130 by SpecialCasing, the rest by LowerRanges
LowerChar(c) ==
    IF c < 128 THEN (IF 65 <= c /\ c <= 90 THEN <<c + 32>> ELSE <<c>>)
    ELSE IF c = 304 THEN <<105, 775>>
    ELSE IF \E k \in DOMAIN LowerRanges :
                /\ LowerRanges[k][1] <= c /\ c <= LowerRanges[k][2]
                /\ (c - LowerRanges[k][1]) % LowerRanges[k][3] = 0
    THEN LET k == CHOOSE k \in DOMAIN LowerRanges :
                    /\ LowerRanges[k][1] <= c /\ c <= LowerRanges[k][2]
                    /\ (c - LowerRanges[k][1]) % LowerRanges[k][3] = 0
         IN  <<c + LowerRanges[k][4]>>
    ELSE <<c>>

\* SpecialCasing's Final_Sigma: the code point at i follows a cased letter and
\* is followed by none, case-ignorable characters being skipped either way
FinalSigma(cps, i) ==
    /\ \E j \in 1..(i - 1) :
          /\ InRanges(cps[j], CasedRanges)
          /\ \A k \in (j + 1)..(i - 1) : InRanges(cps[k], IgnorableRanges)
    /\ ~\E j \in (i + 1)..Len(cps) :
          /\ InRanges(cps[j], CasedRanges)
          /\ \A k \in (i + 1)..(j - 1) : InRanges(cps[k], IgnorableRanges)

RECURSIVE LowerFrom(_, _)
LowerFrom(cps, i) ==
    IF i > Len(cps) THEN <<>>
    ELSE (IF cps[i] = 931 /\ FinalSigma(cps, i) THEN <<962>> ELSE LowerChar(cps[i]))
         \o LowerFrom(cps, i + 1)

RECURSIVE UnitsFrom(_, _)
UnitsFrom(cps, i) ==
    IF i > Len(cps) THEN <<>> ELSE CodeUnits(cps[i]) \o UnitsFrom(cps, i + 1)

\* String.prototype.toLowerCase
toLowerCase(s) == UnitsFrom(LowerFrom(CodePointsFrom(s, 1), 1), 1)

\* String.prototype.indexOf(ch) for a one-unit ch: 0-based, -1 when absent
indexOf(s, ch) ==
    IF \E i \in 1..Len(s) : s[i] = ch
    THEN (CHOOSE i \in 1..Len(s) : s[i] = ch /\ \A j \in 1..(i-1) : s[j] # ch) - 1
    ELSE -1

\* String.prototype.substring(0, len)
substring0(s, len) ==
    LET n == IF len < 0 THEN 0 ELSE IF len > Len(s) THEN Len(s) ELSE len
    IN  SubSeq(s, 1, n)

\* Mutant of trunc: the ellipsis is appended to every string
truncAlways(str, len) == substring0(str, len) \o Ellipsis

\* trunc (lines 34-36)
trunc(str, len) ==
    IF Len(str) > len THEN substring0(str, len) \o Ellipsis ELSE str

\* cutAtFirstNewline (lines 42-44)
cutAtFirstNewline(str) ==
    IF indexOf(str, NL) >= 0
    THEN substring0(str, indexOf(str, NL)) \o Ellipsis
    ELSE str

\* The limit handleReviewSubmitted passes to trunc (line 280)
TextLimit == 60

\* attachment.text of handleReviewSubmitted (line 280)
reviewText(reviewBody) == trunc(cutAtFirstNewline(reviewBody), TextLimit)

(***************************************************************************)
(* Truncation check: bodies of every length up to MaxBodyLen, with the     *)
(* first newline at every position or absent, over two fillings: "aaa..."  *)
(* and ".bb.bb..." with further newlines after the first.                  *)
(***************************************************************************)
Fill(k, i, p) ==
    IF k = 1 THEN 97
    ELSE IF p >= 0 /\ i > p /\ i % 4 = 0 THEN NL
    ELSE IF i % 3 = 0 THEN 46 ELSE 98

\* The body of length n whose first newline is at 0-based index p (-1: none)
MkBody(n, p, k) == [i \in 1..n |-> IF i - 1 = p THEN NL ELSE Fill(k, i - 1, p)]

\* "first line\nsecond line"
Str_first == <<102,105,114,115,116,32,108,105,110,101,10,115,101,99,111,110,100,32,108,105,110,101>>

Bodies ==
    { MkBody(n, p, k) : n \in 0..MaxBodyLen, p \in -1..(MaxBodyLen - 1), k \in 1..2 }
    \cup {Str_first}

TruncInit ==
    /\ body \in Bodies
    /\ text = <<>>
    /\ tpc = "input"

ApplyTrunc ==
    /\ tpc = "input"
    /\ text' = reviewText(body)
    /\ tpc' = "done"
    /\ UNCHANGED body

(***************************************************************************)
(* Webhook payloads                                                        *)
(***************************************************************************)
MaxLabels == 2          \* most labels on a pull request

EventIds == 1..MaxEvents

\* "tuvix", "Tuvix", "TUVIX", "bug"
tuvix == <<116,117,118,105,120>>
Tuvix == <<84,117,118,105,120>>
TUVIX == <<84,85,86,73,88>>
bug == <<98,117,103>>
\* "\u00C9t\u00E9" and "\u00C9T\u00C9" (E with acute)
Ete == <<201,116,233>>
ETE == <<201,84,201>>

LabelNames == {tuvix, Tuvix, TUVIX, bug, Ete}
EnvLabels == {tuvix, Tuvix, ETE}

Label(n) == [name |-> n]

LabelLists ==
    UNION { [1..k -> {Label(n) : n \in LabelNames}] : k \in 0..MaxLabels }

User(l) == [login |-> l,
            avatar_url |-> <<"https://avatars.githubusercontent.com/", l>>,
            html_url |-> <<"https://github.com/", l>>]

Logins == {"alice", "bob"}
Null == [login |-> "null", avatar_url |-> <<>>, html_url |-> <<>>]

\* An ISO-8601 instant "YYYY-MM-DDThh:mm:ss.mmmZ", by its fields
Iso(Y, M, D, h, m, s, ms) == [Y |-> Y, M |-> M, D |-> D, h |-> h, m |-> m, s |-> s, ms |-> ms]
T_created == Iso(2024, 1, 1, 0, 0, 0, 0)
T_closed == Iso(2024, 2, 29, 12, 30, 15, 250)
T_merged == Iso(2024, 3, 1, 8, 0, 1, 0)
T_review == Iso(2023, 12, 31, 23, 59, 59, 999)
NoTime == Iso(1970, 1, 1, 0, 0, 0, 0)

Repo == [full_name |-> "acme/widgets", html_url |-> "https://github.com/acme/widgets"]

PrUrl(n) == <<"https://github.com/acme/widgets/pull/", n>>

PullRequest(n, labels, merged, mergedBy, ref) ==
    [html_url |-> PrUrl(n), title |-> "Fix widget", number |-> n,
     created_at |-> T_created,
     closed_at |-> T_closed,
     merged_at |-> IF merged THEN T_merged ELSE NoTime,
     merged |-> merged,
     merged_by |-> mergedBy,
     base |-> [ref |-> ref],
     user |-> User("carol"),
     labels |-> labels]

NoReview == [state |-> "none", body |-> <<>>, user |-> Null, submitted_at |-> NoTime]

Event(name, pr, sender, label, review) ==
    [name |-> name, pull_request |-> pr, repository |-> Repo, sender |-> User(sender),
     label |-> label, review |-> review]

NoEvent == [name |-> "none"]

ReviewStates == {"approved", "changes_requested", "commented", "dismissed"}

\* "LGTM" and "fix\nnow"
Str_lgtm == <<76,71,84,77>>
Str_two == <<102,105,120,10,110,111,119>>
ReviewBodies == {Str_lgtm, Str_two, MkBody(MaxBodyLen, -1, 2)}

LabeledEvents(prs, senders) ==
    { Event("pull_request.labeled", PullRequest(n, ls, FALSE, Null, "main"), s, Label(l), NoReview) :
        n \in prs, ls \in LabelLists, s \in senders, l \in LabelNames }

ClosedEvents(prs, senders) ==
    { Event("pull_request.closed", PullRequest(n, ls, FALSE, Null, "main"), s, Label(<<>>), NoReview) :
        n \in prs, ls \in LabelLists, s \in senders }
    \cup
    { Event("pull_request.closed", PullRequest(n, ls, TRUE, User(m), r), s, Label(<<>>), NoReview) :
        n \in prs, ls \in LabelLists, s \in senders, m \in Logins, r \in {"main", "dev"} }

ReopenedEvents(prs, senders) ==
    { Event("pull_request.reopened", PullRequest(n, ls, FALSE, Null, "main"), s, Label(<<>>), NoReview) :
        n \in prs, ls \in LabelLists, s \in senders }

ReviewEvents(prs, senders) ==
    { Event("pull_request_review.submitted", PullRequest(n, ls, FALSE, Null, "main"), s, Label(<<>>),
            [state |-> st, body |-> b, user |-> User(s), submitted_at |-> T_review]) :
        n \in prs, ls \in LabelLists, s \in senders, st \in ReviewStates, b \in ReviewBodies }

AllEvents ==
    LabeledEvents({7}, {"alice"}) \cup ClosedEvents({7}, Logins)
    \cup ReopenedEvents({7}, {"alice"}) \cup ReviewEvents({7}, {"bob"})

(***************************************************************************)
(* new Date(iso) / 1000: epoch seconds, the fraction kept as milliseconds  *)
(***************************************************************************)
DaysFromCivil(Y, M, D) ==
    LET y == IF M <= 2 THEN Y - 1 ELSE Y
        era == y \div 400
        yoe == y - era * 400
        mp == IF M > 2 THEN M - 3 ELSE M + 9
        doy == (153 * mp + 2) \div 5 + D - 1
        doe == yoe * 365 + yoe \div 4 - yoe \div 100 + doy
    IN  era * 146097 + doe - 719468

EpochSeconds(t) ==
    [whole |-> DaysFromCivil(t.Y, t.M, t.D) * 86400 + t.h * 3600 + t.m * 60 + t.s,
     millis |-> t.ms]

(***************************************************************************)
(* Event Filter & Formatter                                                *)
(***************************************************************************)
\* Array.prototype.findIndex over the labels, on label.name === name
findIndexName(labels, name) ==
    IF \E i \in 1..Len(labels) : labels[i].name = name
    THEN (CHOOSE i \in 1..Len(labels) :
            labels[i].name = name /\ \A j \in 1..(i-1) : labels[j].name # name) - 1
    ELSE -1

\* Mutant of isTargeted: every pull request is targeted
isTargetedAlways(context) == TRUE

\* isTargeted (lines 21-27)
isTargeted(context) ==
    IF findIndexName(context.pull_request.labels, PR_LABEL) < 0 THEN FALSE ELSE TRUE

FooterIcon == "https://github.githubassets.com/images/modules/logos_page/GitHub-Mark.png"

\* What a handler did: the app.log lines written and the sendSlackMessage calls made
Nothing == [log |-> <<>>, send |-> <<>>]

\* handleLabeled (lines 101-151)
handleLabeled(context) ==
    LET labelName == context.label.name
        repo == context.repository.full_name
        repoURL == context.repository.html_url
        pr == context.pull_request
        sender == context.sender
    IN  IF toLowerCase(labelName) # PR_LABEL THEN Nothing
        ELSE [log |-> << <<"New \"", PR_LABEL, "\" labeled PR detected!">> >>,
              send |-> << [blocks |-> << [type |-> "section",
                                          text |-> [type |-> "mrkdwn",
                                                    text |-> <<sender.login, " is requesting a review in <",
                                                               repoURL, "|", repo, ">">>]] >>,
                           attachments |-> << [color |-> "#FFC107",
                                               author_name |-> pr.user.login,
                                               author_icon |-> pr.user.avatar_url,
                                               author_link |-> pr.user.html_url,
                                               title |-> <<"#", pr.number, " - ", pr.title>>,
                                               title_link |-> pr.html_url,
                                               footer |-> repo,
                                               footer_icon |-> FooterIcon,
                                               ts |-> EpochSeconds(pr.created_at)] >>] >>]

\* The attachment of handleClosed (lines 179-201)
closedAttachment(context, author, title, at) ==
    [color |-> "#607D8B",
     title_link |-> context.pull_request.html_url,
     footer |-> context.repository.full_name,
     footer_icon |-> FooterIcon,
     author_name |-> author.login,
     author_icon |-> author.avatar_url,
     author_link |-> author.html_url,
     title |-> title,
     ts |-> EpochSeconds(at)]

\* Mutant of handleClosed: the merged branch is missing, every close reads "Closed"
handleClosedNoMerge(context) ==
    LET pr == context.pull_request
    IN  IF ~isTargeted(context) THEN Nothing
        ELSE [log |-> << <<"closed">> >>,
              send |-> << [text |-> "",
                           attachments |-> << closedAttachment(context, context.sender,
                                                <<"Closed #", pr.number>>, pr.closed_at) >>] >>]

\* handleClosed (lines 158-203)
handleClosed(context) ==
    LET pr == context.pull_request
        repo == context.repository.full_name
        sender == context.sender
    IN  IF ~isTargeted(context) THEN Nothing
        ELSE IF pr.merged
        THEN [log |-> << <<"\"", PR_LABEL, "\" labeled PR #", pr.number, " in ", repo,
                           " was merged by ", pr.merged_by.login, "!">> >>,
              send |-> << [text |-> "",
                           attachments |-> << closedAttachment(context, pr.merged_by,
                                                <<"Merged #", pr.number, " into ", pr.base.ref>>,
                                                pr.merged_at) >>] >>]
        ELSE [log |-> << <<"\"", PR_LABEL, "\" labeled PR #", pr.number, " in ", repo,
                           " was closed by ", sender.login, ".">> >>,
              send |-> << [text |-> "",
                           attachments |-> << closedAttachment(context, sender,
                                                <<"Closed #", pr.number>>, pr.closed_at) >>] >>]

\* handleReopened (lines 210-246)
handleReopened(context) ==
    LET pr == context.pull_request
        sender == context.sender
    IN  IF ~isTargeted(context) THEN Nothing
        ELSE [log |-> <<>>,
              send |-> << [text |-> "",
                           attachments |-> << [color |-> "#FFC107",
                                               author_name |-> sender.login,
                                               author_icon |-> sender.avatar_url,
                                               author_link |-> sender.html_url,
                                               title |-> <<"Reopened #", pr.number, " - ", pr.title>>,
                                               title_link |-> pr.html_url,
                                               footer |-> context.repository.full_name,
                                               footer_icon |-> FooterIcon,
                                               ts |-> EpochSeconds(pr.created_at)] >>] >>]

\* The attachment of handleReviewSubmitted (lines 272-291)
reviewAttachment(context, color, title) ==
    LET review == context.review
    IN  [author_name |-> review.user.login,
         author_icon |-> review.user.avatar_url,
         author_link |-> review.user.html_url,
         title_link |-> context.pull_request.html_url,
         footer |-> context.repository.full_name,
         footer_icon |-> FooterIcon,
         ts |-> EpochSeconds(review.submitted_at),
         text |-> reviewText(review.body),
         color |-> color,
         title |-> title]

\* The branches of handleReviewSubmitted on the review state (lines 283-292)
reviewBranches(context) ==
    LET pr == context.pull_request
        repo == context.repository.full_name
        review == context.review
    IN  IF review.state = "approved"
        THEN [log |-> << <<"\"", PR_LABEL, "\" labeled PR #", pr.number, " in ", repo,
                           " was approved by ", review.user.login, "!">> >>,
              send |-> << [text |-> "",
                           attachments |-> << reviewAttachment(context, "#388E3C",
                                                <<"Approved #", pr.number, " - ", pr.title>>) >>] >>]
        ELSE IF review.state = "changes_requested"
        THEN [log |-> << <<"Changes were requested on \"", PR_LABEL, "\" labeled PR #", pr.number,
                           " in ", repo, " by ", review.user.login>> >>,
              send |-> << [text |-> "",
                           attachments |-> << reviewAttachment(context, "#D33A49",
                                                <<"Changes requested on #", pr.number, " - ", pr.title>>) >>] >>]
        ELSE [log |-> <<>>,
              send |-> << [text |-> "",
                           attachments |-> << [author_name |-> review.user.login,
                                               author_icon |-> review.user.avatar_url,
                                               author_link |-> review.user.html_url,
                                               title_link |-> pr.html_url,
                                               footer |-> repo,
                                               footer_icon |-> FooterIcon,
                                               ts |-> EpochSeconds(review.submitted_at),
                                               text |-> reviewText(review.body)] >>] >>]

\* Mutant of handleReviewSubmitted: the check of the review state is missing
handleReviewSubmittedAnyState(context) ==
    IF ~isTargeted(context) THEN Nothing ELSE reviewBranches(context)

\* handleReviewSubmitted (lines 253-293)
handleReviewSubmitted(context) ==
    IF ~isTargeted(context) THEN Nothing
    ELSE IF context.review.state # "approved" /\ context.review.state # "changes_requested"
    THEN Nothing
    ELSE reviewBranches(context)

\* module.exports (lines 299-307): the handler registered for each event name
Dispatch(context) ==
    CASE context.name = "pull_request.labeled" -> handleLabeled(context)
      [] context.name = "pull_request.closed" -> handleClosed(context)
      [] context.name = "pull_request.reopened" -> handleReopened(context)
      [] context.name = "pull_request_review.submitted" -> handleReviewSubmitted(context)

(***************************************************************************)
(* Fan-out Notifier                                                        *)
(***************************************************************************)
Workspaces == 1..NumWorkspaces

Channel(w, c) == [id |-> <<"C", w, c>>, name_normalized |-> <<"chan", w, c>>]

ChannelLists(w) == { [i \in 1..k |-> Channel(w, i)] : k \in 0..MaxChannels }

\* What client.users.conversations() may settle to
ListThrow == [threw |-> TRUE, error |-> "Error: ECONNRESET"]
ListNotOk == [threw |-> FALSE, ok |-> FALSE, error |-> "invalid_auth", channels |-> <<>>]
ListOk(chs) == [threw |-> FALSE, ok |-> TRUE, error |-> "", channels |-> chs]

\* What client.chat.postMessage() may settle to
PostThrow == [threw |-> TRUE, error |-> "Error: ETIMEDOUT"]
PostNotOk == [threw |-> FALSE, ok |-> FALSE, error |-> "channel_not_found"]
PostOk == [threw |-> FALSE, ok |-> TRUE, error |-> ""]

\* getChannels (lines 50-60): the channels returned, or the Error thrown
getChannels(res) ==
    IF res.threw
    THEN [threw |-> TRUE, channels |-> <<>>,
          err |-> [kind |-> "Error",
                   message |-> <<"Could not retrieve list of channels: ", res.error>>]]
    ELSE IF ~res.ok
    THEN [threw |-> TRUE, channels |-> <<>>,
          err |-> [kind |-> "Error",
                   message |-> <<"Could not retrieve list of channels: ",
                                 <<"Error: ", res.error>> >>]]
    ELSE [threw |-> FALSE, channels |-> res.channels, err |-> [kind |-> "none"]]

\* Mutant of postArgument: the message is not spread into the argument
postArgumentBare(msg, channel) == [channel |-> channel.id]

\* { ...msg, channel: channel.id } (line 76)
postArgument(msg, channel) ==
    [f \in DOMAIN msg \cup {"channel"} |-> IF f = "channel" THEN channel.id ELSE msg[f]]

\* Mutant of postsDispatched: the loop over the channels stops after the first
postsDispatchedFirst(chs) == IF Len(chs) > 0 THEN <<1>> ELSE <<>>

\* channels.forEach (line 74): the indices of the channels posted to, in order
postsDispatched(chs) == [i \in 1..Len(chs) |-> i]

\* Mutant of catchPost: the error is thrown on instead of recorded
catchPostRethrow(errs, esc, channel, err) ==
    [errors |-> errs, escaped |-> esc \cup {[kind |-> "string", message |-> <<channel.name_normalized, err>>]}]

\* The catch block of a post (lines 81-83)
catchPost(errs, esc, channel, err) ==
    [errors |-> Append(errs, [kind |-> "string",
                              message |-> <<"Unable to send message to slack channel ",
                                            channel.name_normalized, ": ", err>>]),
     escaped |-> esc]

\* The catch block around getChannels (lines 85-88)
catchListing(errs, esc, err) == [errors |-> Append(errs, err), escaped |-> esc]

\* Lines 91-93: the recorded errors are printed, one line each
logErrors(log, errs) == IF Len(errs) > 0 THEN log \o errs ELSE log

Range(f) == { f[i] : i \in DOMAIN f }

\* The Slack calls of event e that have failed so far
Failures(e) ==
    Cardinality({w \in Workspaces : listing[e][w] = "failed"})
    + Cardinality({<<w, i>> \in Workspaces \X (1..MaxChannels) :
                     i <= Len(posts[e][w]) /\ posts[e][w][i] = "failed"})

\* sendSlackMessage (lines 66-94), up to its return. Each callback of
\* slackClients.forEach runs to its first await, which is inside getChannels,
\* after client.users.conversations() was called; no callback has reached a
\* catch block when line 91 reads the array declared on line 67.
\* A handler: the event is received, filtered and formatted, and the message is
\* handed to sendSlackMessage, which returns before any call has settled.
Receive(e, ev) ==
    /\ payload[e] = NoEvent
    /\ LET r == Dispatch(ev)
           errs0 == <<>>
       IN  /\ payload' = [payload EXCEPT ![e] = ev]
           /\ appLog' = appLog \o r.log
           /\ sent' = [sent EXCEPT ![e] = r.send]
           /\ handler' = [handler EXCEPT ![e] = "resolved"]
           /\ IF r.send # <<>>
              THEN /\ listing' = [listing EXCEPT ![e] =
                        [w \in Workspaces |-> IF w \in Range(slackClients) THEN "pending" ELSE "idle"]]
                   /\ listCalls' = [listCalls EXCEPT ![e] = @ \o slackClients]
                   /\ errors' = [errors EXCEPT ![e] = errs0]
                   /\ consoleLog' = logErrors(consoleLog, errs0)
              ELSE UNCHANGED <<listing, listCalls, errors, consoleLog>>
    /\ UNCHANGED <<PR_LABEL, envLabel, slackClients, channels, posts, postCalls, escaped>>
    /\ UNCHANGED truncVars

\* The callback of slackClients.forEach resumes with the outcome of getChannels
\* (lines 72-88): every channel is posted to at once, or the error is recorded.
ListSettles(e, w, res) ==
    /\ listing[e][w] = "pending"
    /\ (res.threw \/ ~res.ok) => Failures(e) < MaxFailures
    /\ LET got == getChannels(res)
           idx == postsDispatched(got.channels)
           caught == catchListing(errors[e], escaped, got.err)
       IN  IF got.threw
           THEN /\ listing' = [listing EXCEPT ![e][w] = "failed"]
                /\ errors' = [errors EXCEPT ![e] = caught.errors]
                /\ escaped' = caught.escaped
                /\ UNCHANGED <<channels, posts, postCalls>>
           ELSE /\ listing' = [listing EXCEPT ![e][w] = "ok"]
                /\ channels' = [channels EXCEPT ![e][w] = got.channels]
                /\ posts' = [posts EXCEPT ![e][w] =
                        [i \in 1..Len(got.channels) |-> IF i \in Range(idx) THEN "pending" ELSE "skipped"]]
                /\ postCalls' = [postCalls EXCEPT ![e][w] = @ \o
                        [k \in 1..Len(idx) |-> postArgument(sent[e][1], got.channels[idx[k]])]]
                /\ UNCHANGED <<errors, escaped>>
    /\ UNCHANGED <<PR_LABEL, envLabel, slackClients, payload, handler, sent, consoleLog, appLog, listCalls>>
    /\ UNCHANGED truncVars

\* The callback of channels.forEach resumes with the outcome of postMessage
\* (lines 77-83).
PostSettles(e, w, i, res) ==
    /\ listing[e][w] = "ok"
    /\ i \in 1..Len(posts[e][w])
    /\ posts[e][w][i] = "pending"
    /\ (res.threw \/ ~res.ok) => Failures(e) < MaxFailures
    /\ LET err == IF res.threw THEN res.error ELSE <<"Error: ", res.error>>
           caught == catchPost(errors[e], escaped, channels[e][w][i], err)
       IN  IF res.threw \/ ~res.ok
           THEN /\ posts' = [posts EXCEPT ![e][w][i] = "failed"]
                /\ errors' = [errors EXCEPT ![e] = caught.errors]
                /\ escaped' = caught.escaped
           ELSE /\ posts' = [posts EXCEPT ![e][w][i] = "ok"]
                /\ UNCHANGED <<errors, escaped>>
    /\ UNCHANGED <<PR_LABEL, envLabel, slackClients, payload, handler, sent, listing, channels,
                   consoleLog, appLog, listCalls, postCalls>>
    /\ UNCHANGED truncVars

\* Start-up (lines 3-15, 299-307) with n workspaces configured
Loaded(labels, ns) ==
    /\ envLabel \in labels
    /\ PR_LABEL = toLowerCase(envLabel)
    /\ slackClients \in { [i \in 1..n |-> i] : n \in ns }
    /\ payload = [e \in EventIds |-> NoEvent]
    /\ handler = [e \in EventIds |-> "idle"]
    /\ sent = [e \in EventIds |-> <<>>]
    /\ listing = [e \in EventIds |-> [w \in Workspaces |-> "idle"]]
    /\ channels = [e \in EventIds |-> [w \in Workspaces |-> <<>>]]
    /\ posts = [e \in EventIds |-> [w \in Workspaces |-> <<>>]]
    /\ errors = [e \in EventIds |-> <<>>]
    /\ consoleLog = <<>>
    /\ appLog = << <<"Yay, the app was loaded!">> >>
    /\ listCalls = [e \in EventIds |-> <<>>]
    /\ postCalls = [e \in EventIds |-> [w \in Workspaces |-> <<>>]]
    /\ escaped = {}
    /\ body = <<>>
    /\ text = <<>>
    /\ tpc = "off"

(***************************************************************************)
(* Specifications                                                          *)
(***************************************************************************)
\* The review-body truncation on its own
InitTrunc ==
    /\ TruncInit
    /\ envLabel = tuvix
    /\ PR_LABEL = toLowerCase(envLabel)
    /\ slackClients = <<1>>
    /\ payload = [e \in EventIds |-> NoEvent]
    /\ handler = [e \in EventIds |-> "idle"]
    /\ sent = [e \in EventIds |-> <<>>]
    /\ listing = [e \in EventIds |-> [w \in Workspaces |-> "idle"]]
    /\ channels = [e \in EventIds |-> [w \in Workspaces |-> <<>>]]
    /\ posts = [e \in EventIds |-> [w \in Workspaces |-> <<>>]]
    /\ errors = [e \in EventIds |-> <<>>]
    /\ consoleLog = <<>>
    /\ appLog = << <<"Yay, the app was loaded!">> >>
    /\ listCalls = [e \in EventIds |-> <<>>]
    /\ postCalls = [e \in EventIds |-> [w \in Workspaces |-> <<>>]]
    /\ escaped = {}

NextTrunc == ApplyTrunc /\ UNCHANGED fanVars

SpecTrunc == InitTrunc /\ [][NextTrunc]_vars

\* One event of any kind and labelling, every workspace answering
InitFilter == Loaded(EnvLabels, {NumWorkspaces})

NextFilter ==
    \/ \E ev \in AllEvents : Receive(1, ev)
    \/ \E w \in Workspaces : ListSettles(1, w, ListOk(<<Channel(w, 1)>>))
    \/ \E w \in Workspaces : PostSettles(1, w, 1, PostOk)

SpecFilter == InitFilter /\ [][NextFilter]_vars

\* One targeted event, every outcome of every Slack call
FanoutEvents ==
    { Event("pull_request.reopened", PullRequest(7, <<Label(tuvix)>>, FALSE, Null, "main"),
            "alice", Label(<<>>), NoReview) }

InitFanout == Loaded({tuvix}, 1..NumWorkspaces)

NextFanout ==
    \/ \E ev \in FanoutEvents : Receive(1, ev)
    \/ \E w \in Workspaces, res \in {ListThrow, ListNotOk} : ListSettles(1, w, res)
    \/ \E w \in Workspaces : \E chs \in ChannelLists(w) : ListSettles(1, w, ListOk(chs))
    \/ \E w \in Workspaces, i \in 1..MaxChannels, res \in {PostThrow, PostNotOk} : PostSettles(1, w, i, res)
    \/ \E w \in Workspaces, i \in 1..MaxChannels : PostSettles(1, w, i, PostOk)

Spec == InitFanout /\ [][NextFanout]_vars

\* Several events in flight at once, one workspace
ConcurrentEvents ==
    { Event("pull_request.reopened", PullRequest(n, <<Label(tuvix)>>, FALSE, Null, "main"),
            "alice", Label(<<>>), NoReview) : n \in {7, 8} }
    \cup
    { Event("pull_request.closed", PullRequest(7, <<Label(bug)>>, FALSE, Null, "main"),
            "bob", Label(<<>>), NoReview) }

InitConcurrent == Loaded({tuvix}, {1})

NextConcurrent ==
    \/ \E e \in EventIds, ev \in ConcurrentEvents : Receive(e, ev)
    \/ \E e \in EventIds : \E chs \in ChannelLists(1) : ListSettles(e, 1, ListOk(chs))
    \/ \E e \in EventIds, i \in 1..MaxChannels : PostSettles(e, 1, i, PostOk)

SpecConcurrent == InitConcurrent /\ [][NextConcurrent]_vars

(***************************************************************************)
(* Properties                                                              *)
(***************************************************************************)
Handled(e) == payload[e].name # "none"

\* Case-insensitive equality of two strings
SameIgnoringCase(a, b) == toLowerCase(a) = toLowerCase(b)

\* The labels the targeting rule of an event is about: the triggering label of
\* a labeled event, every label of the pull request otherwise
RelevantLabels(ev) ==
    IF ev.name = "pull_request.labeled" THEN {ev.label.name}
    ELSE { ev.pull_request.labels[i].name : i \in 1..Len(ev.pull_request.labels) }

NoCalls(e) ==
    /\ listCalls[e] = <<>>
    /\ \A w \in Workspaces : postCalls[e][w] = <<>>

\* C1: an event none of whose relevant labels equals the configured target
\* label, compared case-insensitively, builds no message and makes no
\* channel-listing and no post-message call.
C1_UntargetedIsSilent ==
    \A e \in EventIds :
        (Handled(e) /\ \A n \in RelevantLabels(payload[e]) : ~SameIgnoringCase(n, envLabel))
            => (sent[e] = <<>> /\ NoCalls(e))

C1_Witness ==
    /\ payload[1].name = "pull_request.closed"
    /\ Len(payload[1].pull_request.labels) = 2
    /\ \A n \in RelevantLabels(payload[1]) : ~SameIgnoringCase(n, envLabel)
    /\ handler[1] = "resolved"
    /\ sent[1] = <<>>

\* C2: an event one of whose relevant labels equals the target label
\* case-insensitively (a review event being approved or changes_requested)
\* causes exactly one call of sendSlackMessage.
C2_CaseInsensitiveMatchSends ==
    \A e \in EventIds :
        ( /\ Handled(e)
          /\ \E n \in RelevantLabels(payload[e]) : SameIgnoringCase(n, envLabel)
          /\ payload[e].name = "pull_request_review.submitted"
                => payload[e].review.state \in {"approved", "changes_requested"} )
            => Len(sent[e]) = 1

FanoutComplete(e) ==
    /\ sent[e] # <<>>
    /\ \A w \in Range(slackClients) :
          /\ listing[e][w] \in {"ok", "failed"}
          /\ \A i \in 1..Len(posts[e][w]) : posts[e][w][i] # "pending"

FailedListings(e) == {w \in Workspaces : listing[e][w] = "failed"}

FailedPosts(e) ==
    {<<w, i>> \in Workspaces \X (1..MaxChannels) : i <= Len(posts[e][w]) /\ posts[e][w][i] = "failed"}

Lines(log, kind) == {i \in 1..Len(log) : log[i].kind = kind}

\* C3: once every delivery attempt of a fan-out has completed, each failed
\* channel listing has one workspace-level line in the log and each failed
\* post one channel-level line.
C3_EveryErrorLogged ==
    FanoutComplete(1) =>
        /\ Cardinality(Lines(consoleLog, "Error")) = Cardinality(FailedListings(1))
        /\ Cardinality(Lines(consoleLog, "string")) = Cardinality(FailedPosts(1))

\* C4: the post-message attempts of a fan-out are exactly one per channel of
\* every workspace whose listing succeeded, whatever failed elsewhere, and none
\* for a workspace whose listing has not succeeded; each workspace is listed once.
C4_PostsExactlyListedChannels ==
    \A e \in EventIds :
        /\ sent[e] # <<>> => listCalls[e] = slackClients
        /\ \A w \in Workspaces :
              IF listing[e][w] = "ok"
              THEN /\ Len(postCalls[e][w]) = Len(channels[e][w])
                   /\ \A i \in 1..Len(channels[e][w]) :
                         postCalls[e][w][i].channel = channels[e][w][i].id
              ELSE postCalls[e][w] = <<>>

C4_Witness ==
    /\ listing[1][1] = "failed"
    /\ listing[1][2] = "ok"
    /\ Len(channels[1][2]) = 2
    /\ posts[1][2] = <<"failed", "ok">>
    /\ Len(postCalls[1][2]) = 2

\* C5: whatever channel listing or post fails, by an exception or by a
\* response that is not ok, no error escapes sendSlackMessage or its callbacks
\* and the handler's promise is never rejected.
C5_NoErrorEscapes ==
    /\ escaped = {}
    /\ \A e \in EventIds : handler[e] \in {"idle", "resolved"}

C5_Witness ==
    /\ handler[1] = "resolved"
    /\ FanoutComplete(1)
    /\ \E w \in Workspaces : listing[1][w] = "failed"
    /\ \E w \in Workspaces : \E i \in 1..Len(posts[1][w]) : posts[1][w][i] = "failed"
    /\ \E i \in 1..Len(errors[1]) :
          errors[1][i].kind = "string" /\ errors[1][i].message[4] = PostThrow.error

\* C6: an event leads to at most one call of sendSlackMessage, and every
\* post made for it carries the message of that call, built from that event,
\* with only the channel id added.
C6_OneMessagePerEvent ==
    \A e \in EventIds :
        /\ Len(sent[e]) <= 1
        /\ \A w \in Workspaces : \A k \in 1..Len(postCalls[e][w]) :
              LET arg == postCalls[e][w][k]
                  msg == sent[e][1]
              IN  /\ DOMAIN arg = DOMAIN msg \cup {"channel"}
                  /\ \A f \in DOMAIN msg : arg[f] = msg[f]
                  /\ arg.channel = channels[e][w][k].id
                  /\ arg.attachments[1].title_link = payload[e].pull_request.html_url

C6_Witness ==
    /\ \A e \in {1, 2} : Len(sent[e]) = 1 /\ Len(postCalls[e][1]) = MaxChannels
    /\ payload[1].pull_request.number # payload[2].pull_request.number

HasNewline(s) == indexOf(s, NL) >= 0

\* C7: with limit 60, a body with no newline and at most 60 characters is
\* returned unchanged, one with no newline and more than 60 characters gives
\* its first 60 characters and "...", and one whose first line is short (the
\* line and its ellipsis fit in 60 characters) gives that line and "...".
C7_TruncationCases ==
    tpc = "done" =>
        /\ (~HasNewline(body) /\ Len(body) <= 60) => text = body
        /\ (~HasNewline(body) /\ Len(body) > 60) => text = SubSeq(body, 1, 60) \o Ellipsis
        /\ (HasNewline(body) /\ indexOf(body, NL) + 3 <= 60)
              => text = SubSeq(body, 1, indexOf(body, NL)) \o Ellipsis
        /\ body = Str_first => text = <<102,105,114,115,116,32,108,105,110,101,46,46,46>>

C7_Witness ==
    /\ tpc = "done"
    /\ Len(body) = 70
    /\ ~HasNewline(body)
    /\ Len(text) = 63

\* The length of the body's first line, capped at 60
KeptLength(s) ==
    LET line == IF HasNewline(s) THEN indexOf(s, NL) ELSE Len(s)
    IN  IF line > 60 THEN 60 ELSE line

\* C10: the attachment text is the body cut at its first line break and at 60
\* characters, followed by exactly one "..." when anything was cut and by
\* nothing otherwise.
C10_OneEllipsis ==
    tpc = "done" =>
        text = SubSeq(body, 1, KeptLength(body))
               \o (IF KeptLength(body) < Len(body) THEN Ellipsis ELSE <<>>)

CarriesLabel(ev) ==
    \E i \in 1..Len(ev.pull_request.labels) : ev.pull_request.labels[i].name = PR_LABEL

\* C8: a closed event on a pull request carrying the label PR_LABEL sends
\* exactly one message with color #607D8B: merged, it is titled
\* "Merged #N into <base ref>" with the author and timestamp of the merge; not
\* merged, "Closed #N" with the sender as author and the closing timestamp.
C8_MergedOrClosed ==
    \A e \in EventIds :
        (payload[e].name = "pull_request.closed" /\ CarriesLabel(payload[e])) =>
            /\ Len(sent[e]) = 1
            /\ Len(sent[e][1].attachments) = 1
            /\ LET pr == payload[e].pull_request
                   a == sent[e][1].attachments[1]
                   who == IF pr.merged THEN pr.merged_by ELSE payload[e].sender
               IN  /\ a.color = "#607D8B"
                   /\ a.author_name = who.login
                   /\ a.author_icon = who.avatar_url
                   /\ a.author_link = who.html_url
                   /\ pr.merged => /\ a.title = <<"Merged #", pr.number, " into ", pr.base.ref>>
                                   /\ a.ts = [whole |-> 1709280001, millis |-> 0]
                   /\ ~pr.merged => /\ a.title = <<"Closed #", pr.number>>
                                    /\ a.ts = [whole |-> 1709209815, millis |-> 250]

C8_Witness ==
    /\ payload[1].name = "pull_request.closed"
    /\ CarriesLabel(payload[1])
    /\ payload[1].pull_request.merged
    /\ payload[1].pull_request.merged_by.login # payload[1].sender.login
    /\ payload[1].pull_request.base.ref = "dev"
    /\ Len(sent[1]) = 1
    /\ Len(postCalls[1][1]) = 1

\* C9: a review in a state other than approved and changes_requested produces
\* no message and no call, also on a pull request carrying the label; an
\* approved one is titled "Approved #N - <title>" in #388E3C, a
\* changes_requested one "Changes requested on #N - <title>" in #D33A49.
C9_ReviewStates ==
    \A e \in EventIds :
        payload[e].name = "pull_request_review.submitted" =>
            LET pr == payload[e].pull_request
                st == payload[e].review.state
            IN  /\ st \notin {"approved", "changes_requested"} => (sent[e] = <<>> /\ NoCalls(e))
                /\ (st \in {"approved", "changes_requested"} /\ CarriesLabel(payload[e]))
                      => Len(sent[e]) = 1
                /\ (st = "approved" /\ sent[e] # <<>>) =>
                      /\ sent[e][1].attachments[1].title = <<"Approved #", pr.number, " - ", pr.title>>
                      /\ sent[e][1].attachments[1].color = "#388E3C"
                /\ (st = "changes_requested" /\ sent[e] # <<>>) =>
                      /\ sent[e][1].attachments[1].title =
                            <<"Changes requested on #", pr.number, " - ", pr.title>>
                      /\ sent[e][1].attachments[1].color = "#D33A49"

C9_Witness ==
    /\ payload[1].name = "pull_request_review.submitted"
    /\ CarriesLabel(payload[1])
    /\ payload[1].review.state = "commented"
    /\ handler[1] = "resolved"
    /\ sent[1] = <<>>

====
